---- MODULE Spec2Model ----
(***************************************************************************)
(* Model of the Ansible module nagios_object (src/nagios_object.py).       *)
(*                                                                         *)
(* One invocation of the module is the sequence                            *)
(*   AnsibleModule(...)  ->  pre-flight checks of main()                   *)
(*   -> create_nagios_object() or delete_nagios_object()                   *)
(*   -> validate_nagios_configuration()   (if changed and validate)        *)
(*   -> exit_json()                                                        *)
(* and any fail_json() ends it at once.  The configuration tree is a set   *)
(* of files, each a sequence of object definitions whose attribute values  *)
(* are text; the pynag and Ansible calls the module makes are modelled by  *)
(* their effect on that tree.                                              *)
(***************************************************************************)
EXTENDS Integers, Sequences, FiniteSets, TLC

\* Number of module invocations run one after the other on the same tree.
MaxRuns == 2

(***************************************************************************)
(* Attribute values of a declaration.  A value keeps its Python type: v is *)
(* the text str(value) gives, t the type.  A persisted value is text only. *)
(***************************************************************************)
Absent == [t |-> "absent", v |-> ""]
Null == [t |-> "null", v |-> ""]
S(x) == [t |-> "str", v |-> x]
I(x) == [t |-> "int", v |-> x]
B(x) == [t |-> "bool", v |-> x]

\* What self[key] gives for an attribute the object does not define (None).
Undefined == "<None>"

Keys ==
    {"host_name", "hostgroup_name", "service_description", "name", "register",
     "alias", "members", "dependent_host_name", "dependent_hostgroup_name",
     "dependent_service_description", "servicegroup_name",
     "dependent_servicegroup_name"}

Types == {"host", "hostgroup", "service", "servicedependency", "hostdependency"}

Files == {"f1", "f2"}

\* A parameters dict: the keys of f, every other key absent.
Params(f) == [k \in Keys |-> IF k \in DOMAIN f THEN f[k] ELSE Absent]

\* An object definition as persisted: the attributes of f, as text.
Obj(ty, f) ==
    [type |-> ty, attrs |-> [k \in Keys |-> IF k \in DOMAIN f THEN f[k] ELSE Undefined]]

NoFile == [exists |-> FALSE, objs |-> <<>>]
File(objs) == [exists |-> TRUE, objs |-> objs]

\* parameters.get(key): None for a key the dict lacks.
Get(p, k) == IF p[k] = Absent THEN Null ELSE p[k]

\* parameters.get('register', 1) == 0   (in Python False == 0 as well)
IsTemplate(p) ==
    \/ p["register"].t = "int" /\ p["register"].v = "0"
    \/ p["register"].t = "bool" /\ p["register"].v = "False"

\* pynag Model.config.object_type_keys, for the types of the last branch.
ObjectTypeKeys == [ty \in {"host", "hostgroup"} |-> ty \o "_name"]

ServiceIdKeys == {"service_description", "host_name", "hostgroup_name"}

ServicedependencyIdKeys ==
    {"host_name", "dependent_host_name", "hostgroup_name", "dependent_hostgroup_name",
     "service_description", "dependent_service_description", "servicegroup_name",
     "dependent_servicegroup_name"}

HostdependencyIdKeys ==
    {"host_name", "hostgroup_name", "dependent_host_name", "dependent_hostgroup_name"}

\* The key whose absence makes get_nagios_object() call fail_json, "" if none.
RequiredKey(ty, p) ==
    IF IsTemplate(p) THEN "name"
    ELSE IF ty = "service" THEN "service_description"
    ELSE IF ty \in {"servicedependency", "hostdependency"} THEN ""
    ELSE ObjectTypeKeys[ty]

MissingId(ty, p) == RequiredKey(ty, p) # "" /\ Get(p, RequiredKey(ty, p)) = Null

\* nagios_object_ids
IdKeys(ty, p) ==
    IF IsTemplate(p) THEN {"name"}
    ELSE IF ty = "service" THEN ServiceIdKeys
    ELSE IF ty = "servicedependency" THEN ServicedependencyIdKeys
    ELSE IF ty = "hostdependency" THEN HostdependencyIdKeys
    ELSE {ObjectTypeKeys[ty]}

NagiosObjectIds(ty, p) == [k \in IdKeys(ty, p) |-> Get(p, k)]

\* One keyword of ObjectDefinition.objects.filter(): None selects the objects
\* that lack the attribute, a string those whose attribute is that text.
Matches(o, k, v) ==
    IF v = Null THEN o.attrs[k] = Undefined
    ELSE v.t = "str" /\ o.attrs[k] = v.v

\* The places <<file, index>> of all object definitions of the tree.
Places(tree) == UNION {{<<f, i>> : i \in 1..Len(tree[f].objs)} : f \in Files}

At(tree, pl) == tree[pl[1]].objs[pl[2]]

\* ObjectDefinition.objects.filter(object_type=..., **nagios_object_ids)
Filter(tree, ty, ids) ==
    {pl \in Places(tree) :
        /\ At(tree, pl).type = ty
        /\ \A k \in DOMAIN ids : Matches(At(tree, pl), k, ids[k])}

\* self[key] != item of ObjectDefinition.__setitem__: the persisted value is
\* text (or None), the item keeps the type the declaration gave it.
Differs(o, k, v) ==
    IF v = Null THEN o.attrs[k] # Undefined
    ELSE IF v.t = "str" THEN o.attrs[k] # v.v
    ELSE TRUE

\* The attributes set_attribute() records as changed (the _changes of the object).
Changes(o, p) == {k \in Keys : p[k] # Absent /\ Differs(o, k, p[k])}

\* The definition save() writes for an existing object: a None removes the
\* attribute, any other value is written as its text.
Edited(o, p) ==
    [o EXCEPT !.attrs =
        [k \in Keys |-> IF k \in Changes(o, p)
                         THEN (IF p[k] = Null THEN Undefined ELSE p[k].v)
                         ELSE o.attrs[k]]]

\* The definition save() writes for Model.string_to_class[type](**parameters).
NewObject(ty, p) ==
    [type |-> ty,
     attrs |-> [k \in Keys |-> IF p[k] \in {Absent, Null} THEN Undefined ELSE p[k].v]]

\* save() of a new object: the definition is appended to its file.
ItemAdd(tree, f, o) == [tree EXCEPT ![f] = File(Append(tree[f].objs, o))]

\* save() of an existing object: the definition is rewritten in place.
ItemEdit(tree, pl, o) == [tree EXCEPT ![pl[1]].objs[pl[2]] = o]

RemoveAt(seq, i) == SubSeq(seq, 1, i - 1) \o SubSeq(seq, i + 1, Len(seq))

\* The definition is taken out of its file; the file stays.
ItemRemove(tree, pl) == [tree EXCEPT ![pl[1]].objs = RemoveAt(@, pl[2])]

\* An attribute of o that names the host hn.
RefersTo(o, k, hn) ==
    /\ o.attrs[k] = hn
    /\ \/ k = "members" /\ o.type = "hostgroup"
       \/ k = "host_name" /\ o.type # "host"
       \/ k = "dependent_host_name"

\* delete(cleanup_related_items=False): the references stay.
CleanupNoRelated(tree, o) == tree

\* delete(cleanup_related_items=True) of a host: its name is taken out of the
\* hostgroups, services, dependencies that name it, in whatever file they are.
CleanupRelated(tree, o) ==
    IF o.type # "host" \/ o.attrs["host_name"] = Undefined THEN tree
    ELSE [f \in Files |->
            [tree[f] EXCEPT !.objs =
                [i \in 1..Len(tree[f].objs) |->
                    [tree[f].objs[i] EXCEPT !.attrs =
                        [k \in Keys |->
                            IF RefersTo(tree[f].objs[i], k, o.attrs["host_name"])
                            THEN Undefined ELSE tree[f].objs[i].attrs[k]]]]]]

\* nagios_object.delete(recursive=False, cleanup_related_items=True)
Delete(tree, pl) == ItemRemove(CleanupRelated(tree, At(tree, pl)), pl)

(***************************************************************************)
(* AnsibleModule helpers.  A backup file is an entry of the sequence       *)
(* backups; the backup_file the module holds is its index, 0 for the empty *)
(* string backup_local() returns for a missing file, -1 for None.          *)
(***************************************************************************)
BackupLocal(bk, tree, fn) ==
    IF tree[fn].exists THEN Append(bk, [file |-> fn, objs |-> tree[fn].objs]) ELSE bk

BackupFile(bk, tree, fn) == IF tree[fn].exists THEN Len(bk) + 1 ELSE 0

\* A cleanup that unlinks nothing.
CleanupNothing(tree, fn) == tree

\* module.cleanup(path): the file is unlinked if it exists.
Cleanup(tree, fn) == [tree EXCEPT ![fn] = NoFile]

\* A move that leaves path as it is.
AtomicMoveNothing(tree, bk, idx, fn) == tree

\* module.atomic_move(backup_file, path): path gets the content of the backup.
AtomicMove(tree, bk, idx, fn) == [tree EXCEPT ![fn] = File(bk[idx].objs)]

\* is_exe(path) for the paths a request may name.
IsExe(path) == path \in {"/usr/sbin/nagios", "/usr/bin/nagios"}

\* The test without isinstance(value, bool): a bool is an int to Python.
BadValueBoolAsInt(v) == v.t # "null" /\ v.t # "str" /\ v.t # "int" /\ v.t # "bool"

\* The values main() rejects: neither None, nor str, nor int; a bool is rejected.
BadValue(v) == v.t # "null" /\ v.t # "str" /\ (v.t = "bool" \/ v.t # "int")

(***************************************************************************)
(* The requests.                                                           *)
(***************************************************************************)
Declarations ==
    {[type |-> "host", parameters |-> Params("host_name" :> S("h1") @@ "alias" :> S("a"))],
     [type |-> "host", parameters |-> Params("host_name" :> S("h1") @@ "alias" :> Null)],
     [type |-> "host", parameters |-> Params("host_name" :> S("h1") @@ "alias" :> B("True"))],
     [type |-> "host", parameters |-> Params("alias" :> S("a"))],
     [type |-> "host",
      parameters |-> Params("name" :> S("t1") @@ "register" :> I("0") @@ "host_name" :> S("h1"))],
     [type |-> "host", parameters |-> Params("register" :> I("0"))],
     [type |-> "hostgroup",
      parameters |-> Params("hostgroup_name" :> S("g1") @@ "members" :> S("h1"))],
     [type |-> "service",
      parameters |-> Params("service_description" :> S("s1") @@ "host_name" :> S("h1"))],
     [type |-> "service", parameters |-> Params("host_name" :> S("h1"))],
     [type |-> "hostdependency", parameters |-> Params(<<>>)],
     [type |-> "servicedependency", parameters |-> Params(<<>>)]}

\* validate, the nagios_bin given ("" for none) and whether PATH holds a nagios
\* executable; without validate neither is read.
ValidateModes ==
    {[validate |-> FALSE, nagios_bin |-> "", on_path |-> TRUE],
     [validate |-> TRUE, nagios_bin |-> "", on_path |-> TRUE],
     [validate |-> TRUE, nagios_bin |-> "", on_path |-> FALSE],
     [validate |-> TRUE, nagios_bin |-> "/usr/sbin/nagios", on_path |-> FALSE],
     [validate |-> TRUE, nagios_bin |-> "/tmp/nagios.txt", on_path |-> TRUE]}

\* state and update; update is read on the present path only.
StateModes ==
    {[state |-> "present", update |-> TRUE],
     [state |-> "present", update |-> FALSE],
     [state |-> "absent", update |-> TRUE]}

Request(d, sm, vm, bk, f, cm) ==
    [type |-> d.type, parameters |-> d.parameters, state |-> sm.state,
     update |-> sm.update, validate |-> vm.validate, nagios_bin |-> vm.nagios_bin,
     on_path |-> vm.on_path, backup |-> bk, path |-> f, check_mode |-> cm]

NoRequest ==
    Request([type |-> "host", parameters |-> Params(<<>>)],
            [state |-> "present", update |-> TRUE],
            [validate |-> FALSE, nagios_bin |-> "", on_path |-> TRUE], FALSE, "f1", FALSE)

\* The results of an invocation before anything ran.
NoResults ==
    [changed |-> FALSE, path |-> "", before |-> <<>>, after |-> <<>>,
     backup_file |-> -1, msg |-> "", calls |-> {}]

(***************************************************************************)
(* The trees an invocation may find.                                       *)
(***************************************************************************)
EmptyTree == [f \in Files |-> NoFile]

\* A host in one file and a hostgroup that has it as member in another.
SmallTree ==
    [f \in Files |->
        IF f = "f1"
        THEN File(<<Obj("host", "host_name" :> "h1" @@ "alias" :> "b")>>)
        ELSE File(<<Obj("hostgroup", "hostgroup_name" :> "g1" @@ "members" :> "h1")>>)]

VARIABLES
    fs,        \* the configuration tree: file -> its object definitions
    backups,   \* the backup files
    req,       \* module.params of the running invocation, and its environment
    res,       \* what the invocation computed so far, and the calls it made
    pc,        \* where the invocation is
    pre,       \* the tree and the backup files when the invocation started
    again,     \* the request repeats the previous one, which succeeded
    runs       \* invocations started

vars == <<fs, backups, req, res, pc, pre, again, runs>>

Init ==
    /\ fs \in {EmptyTree, SmallTree}
    /\ backups = <<>>
    /\ req = NoRequest
    /\ res = NoResults
    /\ pc = "idle"
    /\ pre = [fs |-> fs, backups |-> backups]
    /\ again = FALSE
    /\ runs = 0

\* module.fail_json(msg=...): the invocation ends, nothing else runs.
FailJson(m, called) ==
    /\ pc' = "failed"
    /\ res' = [res EXCEPT !.msg = m, !.calls = @ \cup called]

\* get_nagios_bin(): the executable found on PATH, "" for None.
GetNagiosBin(r) == IF r.on_path THEN "/usr/bin/nagios" ELSE ""

\* The message main() fails with before it dispatches on state, "" if none:
\* the executable is checked first, then the type of every value.
Preflight(r) ==
    IF r.validate /\ r.nagios_bin = "" /\ GetNagiosBin(r) = ""
    THEN "Could not find Nagios executable, required by validate"
    ELSE IF r.validate /\ r.nagios_bin # "" /\ ~IsExe(r.nagios_bin)
    THEN "Nagios executable does not exist or is not executable"
    ELSE IF \E k \in Keys : r.parameters[k] # Absent /\ BadValue(r.parameters[k])
    THEN "parameter item must be null, integer or string"
    ELSE ""

\* AnsibleModule(...) parses the arguments r and main() runs up to the
\* dispatch on state.
Main(r) ==
    /\ runs < MaxRuns
    /\ req' = r
    /\ res' = [NoResults EXCEPT !.msg = Preflight(r)]
    /\ pc' = IF Preflight(r) # "" THEN "failed" ELSE "reconcile"
    /\ pre' = [fs |-> fs, backups |-> backups]
    /\ runs' = runs + 1
    /\ UNCHANGED <<fs, backups>>

\* The module is started with the request r.
Invoke(r) ==
    /\ pc = "idle"
    /\ again' = FALSE
    /\ Main(r)

\* The module is started once more with the request that just succeeded.
Repeat ==
    /\ pc = "done"
    /\ again' = TRUE
    /\ Main(req)

\* The process of the invocation is gone; only the files stay.
Return ==
    /\ pc \in {"done", "failed"}
    /\ pc' = "idle"
    /\ req' = NoRequest
    /\ res' = NoResults
    /\ pre' = [fs |-> fs, backups |-> backups]
    /\ again' = FALSE
    /\ UNCHANGED <<fs, backups, runs>>

\* A lookup that takes the first of several matches.
AmbiguousNever(found) == FALSE

\* len(nagios_objects) > 1
Ambiguous(found) == Cardinality(found) > 1

\* get_nagios_object(): msg is the fail_json message, "" when it returns;
\* found holds the place of the object returned, or is empty for None.
GetNagiosObject(tree, ty, p) ==
    IF MissingId(ty, p)
    THEN [msg |-> RequiredKey(ty, p) \o " parameter must be defined",
          calls |-> {}, found |-> {}]
    ELSE LET found == Filter(tree, ty, NagiosObjectIds(ty, p))
         IN  IF Ambiguous(found)
             THEN [msg |-> "More than one Nagios object found matching parameter IDs",
                   calls |-> {"filter"}, found |-> found]
             ELSE [msg |-> "", calls |-> {"filter"}, found |-> found]

\* The step of main() after create/delete returned: validation or the exit.
AfterReconcile(changed) == IF changed /\ req.validate THEN "validate" ELSE "exit"

\* create_nagios_object(), and main() up to the call of the validation.
CreateNagiosObject ==
    /\ pc = "reconcile"
    /\ req.state = "present"
    /\ LET g == GetNagiosObject(fs, req.type, req.parameters)
           doBackup == req.backup \/ req.validate
       IN  IF g.msg # ""
           THEN FailJson(g.msg, g.calls) /\ UNCHANGED <<fs, backups>>
           ELSE IF g.found = {}
           THEN LET o == NewObject(req.type, req.parameters)
                IN  /\ backups' = IF doBackup THEN BackupLocal(backups, fs, req.path)
                                  ELSE backups
                    /\ fs' = ItemAdd(fs, req.path, o)
                    /\ res' = [res EXCEPT
                                !.changed = TRUE, !.path = req.path,
                                !.before = <<>>, !.after = <<o>>,
                                !.backup_file = IF doBackup
                                                THEN BackupFile(backups, fs, req.path)
                                                ELSE 0,
                                !.calls = g.calls \cup {"save"}
                                    \cup (IF doBackup THEN {"backup_local"} ELSE {})]
                    /\ pc' = AfterReconcile(TRUE)
           ELSE LET pl == CHOOSE x \in g.found : TRUE
                    o == At(fs, pl)
                    n == IF req.update THEN Edited(o, req.parameters) ELSE o
                    changed == req.update /\ Changes(o, req.parameters) # {}
                IN  /\ backups' = IF changed /\ doBackup
                                  THEN BackupLocal(backups, fs, pl[1]) ELSE backups
                    /\ fs' = IF changed THEN ItemEdit(fs, pl, n) ELSE fs
                    /\ res' = [res EXCEPT
                                !.changed = changed, !.path = pl[1],
                                !.before = <<o>>,
                                !.after = IF changed THEN <<n>> ELSE <<o>>,
                                !.backup_file = IF changed /\ doBackup
                                                THEN BackupFile(backups, fs, pl[1])
                                                ELSE 0,
                                !.calls = g.calls
                                    \cup (IF changed THEN {"save"} ELSE {})
                                    \cup (IF changed /\ doBackup
                                          THEN {"backup_local"} ELSE {})]
                    /\ pc' = AfterReconcile(changed)
    /\ UNCHANGED <<req, pre, again, runs>>

\* delete_nagios_object(), and main() up to the call of the validation.
DeleteNagiosObject ==
    /\ pc = "reconcile"
    /\ req.state = "absent"
    /\ LET g == GetNagiosObject(fs, req.type, req.parameters)
           doBackup == req.backup \/ req.validate
       IN  IF g.msg # ""
           THEN FailJson(g.msg, g.calls) /\ UNCHANGED <<fs, backups>>
           ELSE IF g.found = {}
           THEN /\ res' = [res EXCEPT !.calls = g.calls]
                /\ pc' = AfterReconcile(FALSE)
                /\ UNCHANGED <<fs, backups>>
           ELSE LET pl == CHOOSE x \in g.found : TRUE
                    o == At(fs, pl)
                IN  /\ backups' = IF doBackup THEN BackupLocal(backups, fs, pl[1])
                                  ELSE backups
                    /\ fs' = Delete(fs, pl)
                    /\ res' = [res EXCEPT
                                !.changed = TRUE, !.path = pl[1],
                                !.before = <<o>>, !.after = <<>>,
                                !.backup_file = IF doBackup
                                                THEN BackupFile(backups, fs, pl[1])
                                                ELSE -1,
                                !.calls = g.calls \cup {"delete"}
                                    \cup (IF doBackup THEN {"backup_local"} ELSE {})]
                    /\ pc' = AfterReconcile(TRUE)
    /\ UNCHANGED <<req, pre, again, runs>>

\* What a failed validation leaves: the new file is deleted when there is no
\* backup file, else the file is restored from the backup file.
RolledBack(tree, bk, idx, fn) ==
    IF idx = 0 THEN Cleanup(tree, fn) ELSE AtomicMove(tree, bk, idx, fn)

\* validate_nagios_configuration(); ok is the result of verify_config().
ValidateNagiosConfiguration(ok) ==
    /\ pc = "validate"
    /\ IF ok
       THEN /\ backups' = IF ~req.backup /\ res.backup_file > 0
                          THEN RemoveAt(backups, res.backup_file) ELSE backups
            /\ res' = [res EXCEPT !.calls = @ \cup {"verify_config"}]
            /\ pc' = "exit"
            /\ UNCHANGED fs
       ELSE /\ fs' = RolledBack(fs, backups, res.backup_file, res.path)
            /\ backups' = IF res.backup_file > 0
                          THEN RemoveAt(backups, res.backup_file) ELSE backups
            /\ FailJson("Nagios configuration validation failed", {"verify_config"})
    /\ UNCHANGED <<req, pre, again, runs>>

\* The end of main(): module.exit_json(**results).
ExitJson ==
    /\ pc = "exit"
    /\ pc' = "done"
    /\ UNCHANGED <<fs, backups, req, res, pre, again, runs>>

\* The file a declaration names as path: hosts in one file, the rest in another.
PathFor(ty) == IF ty = "host" THEN "f1" ELSE "f2"

Requests ==
    {Request(d, sm, vm, bk, PathFor(d.type), cm) :
        d \in Declarations, sm \in StateModes, vm \in ValidateModes,
        bk \in BOOLEAN, cm \in BOOLEAN}

Next ==
    \/ \E r \in Requests : Invoke(r)
    \/ Repeat
    \/ Return
    \/ CreateNagiosObject
    \/ DeleteNagiosObject
    \/ \E ok \in BOOLEAN : ValidateNagiosConfiguration(ok)
    \/ ExitJson

Spec == Init /\ [][Next]_vars

TypeOK ==
    /\ pc \in {"idle", "reconcile", "validate", "exit", "done", "failed"}
    /\ runs \in 0..MaxRuns
    /\ req.type \in Types
    /\ req.path \in Files
    /\ res.backup_file \in -1..Len(backups) + 1
    /\ \A f \in Files : ~fs[f].exists => fs[f] = NoFile

(***************************************************************************)
(* Vocabulary of the properties.                                           *)
(***************************************************************************)
\* Neither a configuration file nor a backup file differs from what the
\* invocation found.
Untouched == fs = pre.fs /\ backups = pre.backups

\* The invocation got as far as looking the object up.
LookedUp == "filter" \in res.calls

\* The validator ran and rejected the configuration.
ValidationFailed == res.msg = "Nagios configuration validation failed"

\* The objects of the tree that name the host hn.
References(tree, hn) ==
    {pl \in Places(tree) : \E k \in Keys : RefersTo(At(tree, pl), k, hn)}

\* The objects the declaration matched in the tree the invocation found.
FoundBefore == Filter(pre.fs, req.type, NagiosObjectIds(req.type, req.parameters))

\* The declaration names none of the attributes that identify an object of
\* its type.
LacksIdentifying(r) ==
    IF IsTemplate(r.parameters) THEN Get(r.parameters, "name") = Null
    ELSE IF r.type = "service" THEN Get(r.parameters, "service_description") = Null
    ELSE IF r.type = "servicedependency"
    THEN \A k \in ServicedependencyIdKeys : Get(r.parameters, k) = Null
    ELSE IF r.type = "hostdependency"
    THEN \A k \in HostdependencyIdKeys : Get(r.parameters, k) = Null
    ELSE Get(r.parameters, r.type \o "_name") = Null

\* The persisted text of every supplied attribute is the text of the value
\* supplied (no attribute for null).
NothingDiffers(o, p) ==
    \A k \in Keys :
        p[k] # Absent =>
            o.attrs[k] = (IF p[k] = Null THEN Undefined ELSE p[k].v)

\* validate is asked for and there is no usable executable: none is named and
\* none is on PATH, or the one named is not an executable file.
NoExecutable(r) ==
    r.validate /\ (IF r.nagios_bin = "" THEN ~r.on_path
                   ELSE r.nagios_bin # "/usr/sbin/nagios")

\* A supplied value is neither null, nor an integer, nor a string.
IllTypedValue(r) ==
    \E k \in Keys : r.parameters[k].t \notin {"absent", "null", "int", "str"}

(***************************************************************************)
(* C1.  A successful state=present invocation, run again unchanged on the  *)
(* tree it left, reports changed=false and writes no file.                 *)
(***************************************************************************)
C1_PresentIdempotent ==
    (pc = "done" /\ again /\ req.state = "present")
        => ~res.changed /\ "save" \notin res.calls /\ Untouched

(***************************************************************************)
(* C2.  A declaration that lacks the identifying attribute(s) of its type  *)
(* fails before a lookup result is acted on: nothing is created, updated,  *)
(* deleted, backed up or written.                                          *)
(***************************************************************************)
C2_MissingIdFails ==
    (pc \notin {"idle", "reconcile"} /\ LacksIdentifying(req) /\ ~IllTypedValue(req)
     /\ ~NoExecutable(req))
        => pc = "failed" /\ res.calls = {} /\ Untouched

(***************************************************************************)
(* C3.  When validation fails after the update of an object that existed,  *)
(* the invocation has failed and the object's file has the content it had  *)
(* before the invocation.                                                  *)
(***************************************************************************)
C3_UpdateRolledBack ==
    (ValidationFailed /\ req.state = "present" /\ res.before # <<>>)
        => /\ pc = "failed"
           /\ fs[res.path] = pre.fs[res.path]

C3_Witness ==
    /\ ValidationFailed
    /\ req.state = "present"
    /\ res.before # <<>>
    /\ res.after # res.before
    /\ "save" \in res.calls

(***************************************************************************)
(* C4, as stated.  When validation fails after the creation of a new       *)
(* object, the file the object was written to no longer exists.            *)
(***************************************************************************)
C4_NewFileGone ==
    (ValidationFailed /\ req.state = "present" /\ res.before = <<>>)
        => pc = "failed" /\ ~fs[res.path].exists

(***************************************************************************)
(* C4, amended.  When validation fails after the creation of a new object, *)
(* the invocation has failed; the file the object was written to no longer *)
(* exists if the invocation created it, and has its former content if it   *)
(* existed before.                                                         *)
(***************************************************************************)
C4_NewObjectRolledBack ==
    (ValidationFailed /\ req.state = "present" /\ res.before = <<>>)
        => /\ pc = "failed"
           /\ fs[res.path] = pre.fs[res.path]
           /\ ~pre.fs[res.path].exists => ~fs[res.path].exists

C4_Witness ==
    /\ ValidationFailed
    /\ req.state = "present"
    /\ res.before = <<>>
    /\ "save" \in res.calls
    /\ ~pre.fs[res.path].exists
    /\ ~fs[res.path].exists

(***************************************************************************)
(* C5.  When validation fails after a deletion, the whole configuration    *)
(* tree is as it was before the invocation: the object is defined again    *)
(* and so is every reference to it that the deletion cleaned up.           *)
(***************************************************************************)
C5_DeleteRolledBack ==
    (ValidationFailed /\ req.state = "absent") => fs = pre.fs

(***************************************************************************)
(* C6.  state=present with one matching object: when update is disabled   *)
(* or no supplied attribute differs from the persisted one, nothing is     *)
(* backed up, saved or validated, the files are unchanged and before and   *)
(* after are the same text.                                                *)
(***************************************************************************)
C6_WriteOnlyOnChange ==
    (/\ LookedUp
     /\ req.state = "present"
     /\ Cardinality(FoundBefore) = 1
     /\ \/ ~req.update
        \/ \A pl \in FoundBefore : NothingDiffers(At(pre.fs, pl), req.parameters))
        => /\ res.calls = {"filter"}
           /\ ~res.changed
           /\ res.before = res.after
           /\ Untouched

(***************************************************************************)
(* C7.  When more than one object matches the declaration, the invocation  *)
(* fails with the ambiguous-match error, for state=present and for         *)
(* state=absent, and nothing is modified, deleted or created.              *)
(***************************************************************************)
C7_AmbiguousFails ==
    (LookedUp /\ Cardinality(FoundBefore) > 1)
        => /\ pc = "failed"
           /\ res.msg = "More than one Nagios object found matching parameter IDs"
           /\ res.calls = {"filter"}
           /\ Untouched

C7_Witness ==
    /\ pc = "failed"
    /\ LookedUp
    /\ Cardinality(FoundBefore) > 1
    /\ req.state = "absent"

C9_PreflightFails ==
    (pc # "idle" /\ (NoExecutable(req) \/ IllTypedValue(req)))
        => pc = "failed" /\ res.calls = {} /\ Untouched

C9_Witness ==
    /\ pc = "failed"
    /\ IllTypedValue(req)
    /\ ~NoExecutable(req)
    /\ FoundBefore # {}

(***************************************************************************)
(* C10.  In check mode no object is saved or deleted, no backup file is    *)
(* created and no configuration file is changed.                           *)
(***************************************************************************)
C10_CheckModeChangesNothing ==
    req.check_mode => "save" \notin res.calls /\ "delete" \notin res.calls /\ Untouched

====
